---- MODULE Spec2Model ----
(***************************************************************************)
(* Model of the translation bot of src/main.py: the two message handlers   *)
(* handle_text and handle_document, the clients they call (translate_text, *)
(* text_to_speech, process_document, create_translated_file) and the       *)
(* asyncio event loop that runs the handlers of the messages in flight.    *)
(*                                                                         *)
(* A string is a record [pad, body]: `pad` copies of a filler letter       *)
(* (neither a space nor the warning sign) followed by the tokens of        *)
(* `body`.  A token is a piece of text that the program never looks        *)
(* inside: a letter, a space, a newline, a language code, the warning      *)
(* sign, a dot, a file extension.  Python's None is the string of pad -1.  *)
(* The command handlers (/start, /help, /langs) send one static reply and  *)
(* are not modelled.                                                       *)
(***************************************************************************)
EXTENDS Integers, Sequences, FiniteSets, TLC

VARIABLES msg, pc, loc, log, loop

vars == <<msg, pc, loc, log, loop>>

\* ---------------------------------------------------------------- bounds
\* longest token sequence of a text message
MaxBody == 3
\* longest token sequence of a file name
MaxName == 3

\* ------------------------------------------------------ program constants
MAX_TEXT_LENGTH == 10000
MAX_FILE_SIZE == 5 * 1024 * 1024
\* the literal of text_to_speech's length test
MAX_SPEECH_LENGTH == 5000

\* the keys of LANGUAGES
LANGUAGES == {"en", "ru", "es", "fr", "de", "it", "ja", "zh"}

\* the list of handle_document's extension test
SUPPORTED == {<<"txt">>, <<"docx">>, <<"pdf">>}

\* ------------------------------------------------------------- strings
SeqsUpTo(S, n) == UNION {[1..k -> S] : k \in 0..n}

Str(p, b) == [pad |-> p, body |-> b]

None == Str(0 - 1, <<>>)

EmptyStr == Str(0, <<>>)

\* characters of a token
CharLen(t) ==
    IF t \in LANGUAGES \cup {"xx"} THEN 2
    ELSE IF t \in {"pdf", "PDF", "txt"} THEN 3
    ELSE IF t = "docx" THEN 4
    ELSE 1

RECURSIVE BodyLen(_)
BodyLen(b) == IF b = <<>> THEN 0 ELSE CharLen(Head(b)) + BodyLen(Tail(b))

\* len(s)
StrLen(s) == s.pad + BodyLen(s.body)

\* bool(s): None and the empty string are falsy
Truthy(s) == s # None /\ StrLen(s) > 0

\* the last index of token t in b, 0 when there is none
LastIndexOf(b, t) ==
    IF \E i \in 1..Len(b) : b[i] = t
    THEN CHOOSE i \in 1..Len(b) : b[i] = t /\ \A j \in (i+1)..Len(b) : b[j] # t
    ELSE 0

\* ' ' in s
HasSpace(s) == LastIndexOf(s.body, " ") # 0

\* s.rsplit(' ', 1) of a string that has a space: <<text_parts[0], text_parts[1]>>
RSplit(s) ==
    LET k == LastIndexOf(s.body, " ")
    IN  <<Str(s.pad, SubSeq(s.body, 1, k - 1)), SubSeq(s.body, k + 1, Len(s.body))>>

\* s in LANGUAGES, for a string without filler
InLanguages(b) == Len(b) = 1 /\ b[1] \in LANGUAGES

\* s.startswith("⚠")
StartsWithWarning(s) == s.pad = 0 /\ Len(s.body) > 0 /\ s.body[1] = "WARN"

\* name.split('.')[-1]
LastDotPart(name) == SubSeq(name, LastIndexOf(name, ".") + 1, Len(name))

\* s.lower()
Lower(b) == [i \in 1..Len(b) |-> IF b[i] = "PDF" THEN "pdf" ELSE b[i]]

\* s.replace('.pdf', '.txt'): every "." followed by "pdf" becomes "." "txt"
ReplacePdf(b) ==
    [i \in 1..Len(b) |-> IF i > 1 /\ b[i-1] = "." /\ b[i] = "pdf" THEN "txt" ELSE b[i]]

\* the two strings translate_text returns on failure
TooLongMsg == Str(0, <<"WARN", "TooLong">>)

RemoteErrorMsg == Str(0, <<"WARN", "RemoteError">>)


\* LANGUAGES.get(lang, lang): the display name, or the raw code on a miss
LanguagesGet(lang) == IF InLanguages(lang) THEN <<"NameOf", lang[1]>> ELSE lang

\* ------------------------------------------------------------ messages
\* the messages being handled: one handler task per message
Handlers == {"m1", "m2"}

\* value of `loop` when no handler is running
Free == "free"

NoFile == [name |-> <<>>, fmt |-> "None"]

PlainMsg(t) ==
    [kind |-> "plain", text |-> t, file_name |-> <<>>, file_size |-> 0, caption |-> <<>>]

DocMsg(n, s, c) ==
    [kind |-> "document", text |-> None, file_name |-> n, file_size |-> s, caption |-> c]

NoMsg == [kind |-> "none", text |-> None, file_name |-> <<>>, file_size |-> 0, caption |-> <<>>]

TextTokens == {"h", " ", "NL", "es", "xx"}

TextPads == {0, MAX_TEXT_LENGTH - 1, MAX_TEXT_LENGTH}

\* a message without a document; its text is None when it carries no text
TextMessages ==
    {PlainMsg(Str(p, b)) : p \in TextPads, b \in SeqsUpTo(TextTokens, MaxBody)}
        \cup {PlainMsg(None)}

NameTokens == {"a", ".", "pdf", "PDF", "txt", "docx"}

FileSizes == {MAX_FILE_SIZE, MAX_FILE_SIZE + 1}

\* an absent caption is the empty one: both are falsy in handle_document's test
Captions == {<<>>, <<"es">>, <<"xx">>, <<"es", " ">>}

DocMessages ==
    {DocMsg(n, s, c) : n \in SeqsUpTo(NameTokens, MaxName), s \in FileSizes, c \in Captions}

Messages == TextMessages \cup DocMessages

\* the messages of the runs with two messages in flight
ConcMessages ==
    { PlainMsg(Str(0, <<"h", " ", "es">>)),
      PlainMsg(Str(MAX_TEXT_LENGTH, <<"h">>)),
      PlainMsg(None),
      DocMsg(<<"a", ".", "txt">>, MAX_FILE_SIZE, <<"es">>),
      DocMsg(<<"a", ".", "pdf">>, MAX_FILE_SIZE + 1, <<>>),
      DocMsg(<<"a", ".", "a">>, MAX_FILE_SIZE, <<>>) }

\* what the translation endpoint may answer
Responses ==
    { Str(0, <<"h">>), Str(0, <<"WARN", "h">>),
      Str(MAX_SPEECH_LENGTH - 1, <<"h">>), Str(MAX_SPEECH_LENGTH, <<"h">>) }

\* what process_document may extract from a downloaded file
Extractions ==
    { EmptyStr, Str(0, <<"h">>), Str(MAX_TEXT_LENGTH - 1, <<"h">>), Str(MAX_TEXT_LENGTH, <<"h">>) }

\* what the speech endpoint may answer: audio bytes, an empty body, or an error
SpeechAnswers == {"bytes", "empty", "None"}

\* ------------------------------------------------------- control points
\* synchronous code: the handler holds the event loop
SyncPcs ==
    { "t_parse", "d_validate", "translate_text", "post_translate", "t_after_translate",
      "d_after_translate", "text_to_speech", "post_tts", "t_after_tts", "d_after_extract",
      "d_build" }

\* blocked inside requests.post
PostPcs == {"post_translate", "post_tts"}

\* suspended in an await of the chat transport
AwaitPcs ==
    { "t_reply_toolong", "t_chat_action", "t_reply_progress", "t_edit_err",
      "t_edit_translation", "t_reply_voice", "t_reply_notice", "t_reply_generic",
      "d_reply_oversize", "d_reply_unsupported", "d_chat_action", "d_reply_progress",
      "d_get_file", "d_download", "d_edit_extract_err", "d_edit_err", "d_edit_build_err",
      "d_reply_document", "d_delete", "d_reply_generic" }

\* the handler returned ("done") or an exception left it ("raised")
EndPcs == {"done", "raised"}

InitLoc ==
    [text |-> None, target_lang |-> <<"ru">>, translated_text |-> None,
     audio_data |-> "None", translated_file |-> NoFile]

\* a call of the chat transport or of an endpoint, as the log records it
E(op, what) ==
    [op |-> op, what |-> what, ok |-> TRUE, text |-> None, lang |-> <<>>,
     shown |-> <<>>, name |-> <<>>, fmt |-> ""]

Goto(h, p) ==
    /\ pc' = [pc EXCEPT ![h] = p]
    /\ loop' = IF p \in SyncPcs THEN h ELSE Free

Emit(h, e) == log' = [log EXCEPT ![h] = Append(@, e)]

\* an awaited transport call returns: it succeeded, or it raised
AwaitReturns(h, e, next, handler) ==
    /\ loop = Free
    /\ \E ok \in BOOLEAN :
         /\ Emit(h, [e EXCEPT !.ok = ok])
         /\ Goto(h, IF ok THEN next ELSE handler)
    /\ UNCHANGED <<msg, loc>>

TypeOK ==
    /\ \A h \in Handlers : pc[h] \in SyncPcs \cup AwaitPcs \cup EndPcs \cup {"start", "idle"}
    /\ loop \in Handlers \cup {Free}

\* one message in flight
Init ==
    /\ msg \in {[h \in Handlers |-> IF h = "m1" THEN m ELSE NoMsg] : m \in Messages}
    /\ pc = [h \in Handlers |-> IF msg[h] = NoMsg THEN "idle" ELSE "start"]
    /\ loc = [h \in Handlers |-> InitLoc]
    /\ log = [h \in Handlers |-> <<>>]
    /\ loop = Free

\* two messages in flight
InitConc ==
    /\ msg \in [Handlers -> ConcMessages]
    /\ pc = [h \in Handlers |-> "start"]
    /\ loc = [h \in Handlers |-> InitLoc]
    /\ log = [h \in Handlers |-> <<>>]
    /\ loop = Free

\* ------------------------------------------------------------ dispatch
\* the dispatcher starts the handler the message's filter selects
Dispatch(h) ==
    /\ pc[h] = "start"
    /\ loop = Free
    /\ Goto(h, IF msg[h].kind = "document" THEN "d_validate" ELSE "t_parse")
    /\ UNCHANGED <<msg, loc, log>>

\* --------------------------------------------------------- translate_text
\* translate_text with the length test off by one
TranslateTooLong_Mut(text) == StrLen(text) > MAX_TEXT_LENGTH + 1

\* the length test of translate_text
TranslateTooLong(text) == StrLen(text) > MAX_TEXT_LENGTH

\* the handler the result of translate_text goes back to
AfterTranslatePc(h) ==
    IF msg[h].kind = "document" THEN "d_after_translate" ELSE "t_after_translate"

\* translate_text up to the request: a text that is too long gets the
\* TooLong string without a request
Translate_Enter(h) ==
    /\ pc[h] = "translate_text"
    /\ loop = h
    /\ IF TranslateTooLong(loc[h].text)
       THEN /\ loc' = [loc EXCEPT ![h].translated_text = TooLongMsg]
            /\ Goto(h, AfterTranslatePc(h))
       ELSE /\ Goto(h, "post_translate")
            /\ UNCHANGED loc
    /\ UNCHANGED <<msg, log>>

\* requests.post of translate_text returns: the translation, or any
\* exception, which becomes the RemoteError string.  The call blocks: the
\* handler keeps the event loop until it returns.
Translate_Post(h) ==
    /\ pc[h] = "post_translate"
    /\ loop = h
    /\ \E r \in Responses \cup {None} :
         /\ Emit(h, [E("post_translate", "") EXCEPT
                       !.ok = (r # None), !.text = loc[h].text,
                       !.lang = loc[h].target_lang])
         /\ loc' = [loc EXCEPT ![h].translated_text =
                                  IF r = None THEN RemoteErrorMsg ELSE r]
    /\ Goto(h, AfterTranslatePc(h))
    /\ UNCHANGED msg

\* --------------------------------------------------------- text_to_speech
\* the length test of text_to_speech
SpeechTooLong(text) == StrLen(text) > MAX_SPEECH_LENGTH

Tts_Enter(h) ==
    /\ pc[h] = "text_to_speech"
    /\ loop = h
    /\ IF SpeechTooLong(loc[h].translated_text)
       THEN /\ loc' = [loc EXCEPT ![h].audio_data = "None"]
            /\ Goto(h, "t_after_tts")
       ELSE /\ Goto(h, "post_tts")
            /\ UNCHANGED loc
    /\ UNCHANGED <<msg, log>>

\* requests.post of text_to_speech returns: response.content, or None on
\* any exception.  The call blocks like the one of translate_text.
Tts_Post(h) ==
    /\ pc[h] = "post_tts"
    /\ loop = h
    /\ \E a \in SpeechAnswers :
         /\ Emit(h, [E("post_tts", "") EXCEPT
                       !.ok = (a # "None"), !.text = loc[h].translated_text,
                       !.lang = loc[h].target_lang])
         /\ loc' = [loc EXCEPT ![h].audio_data = a]
    /\ Goto(h, "t_after_tts")
    /\ UNCHANGED msg

\* ------------------------------------------------------------ handle_text
\* handle_text taking the code without cutting it off the text
TextSplit_Mut(text) ==
    IF HasSpace(text) /\ InLanguages(RSplit(text)[2])
    THEN [text |-> text, lang |-> RSplit(text)[2]]
    ELSE [text |-> text, lang |-> <<"ru">>]

\* the language test of handle_text: the text and the target language
TextSplit(text) ==
    IF HasSpace(text) /\ InLanguages(RSplit(text)[2])
    THEN [text |-> RSplit(text)[1], lang |-> RSplit(text)[2]]
    ELSE [text |-> text, lang |-> <<"ru">>]

\* the length test of handle_text
TextTooLong(text) == StrLen(text) > MAX_TEXT_LENGTH

\* from the entry to the first await.  A message without text raises at
\* the test for a space.
T_Parse(h) ==
    /\ pc[h] = "t_parse"
    /\ loop = h
    /\ IF msg[h].text = None
       THEN /\ Goto(h, "t_reply_generic")
            /\ UNCHANGED loc
       ELSE LET s == TextSplit(msg[h].text)
            IN  /\ loc' = [loc EXCEPT ![h].text = s.text, ![h].target_lang = s.lang]
                /\ Goto(h, IF TextTooLong(s.text) THEN "t_reply_toolong" ELSE "t_chat_action")
    /\ UNCHANGED <<msg, log>>

T_ReplyTooLong(h) ==
    /\ pc[h] = "t_reply_toolong"
    /\ AwaitReturns(h, E("reply", "TooLong"), "done", "t_reply_generic")

T_ChatAction(h) ==
    /\ pc[h] = "t_chat_action"
    /\ AwaitReturns(h, E("send_chat_action", ""), "t_reply_progress",
                 "t_reply_generic")

T_ReplyProgress(h) ==
    /\ pc[h] = "t_reply_progress"
    /\ AwaitReturns(h, E("reply", "Processing"), "translate_text",
                 "t_reply_generic")

\* the test for the warning sign, and the edit it chooses
T_AfterTranslate(h) ==
    /\ pc[h] = "t_after_translate"
    /\ loop = h
    /\ Goto(h, IF StartsWithWarning(loc[h].translated_text)
               THEN "t_edit_err" ELSE "t_edit_translation")
    /\ UNCHANGED <<msg, loc, log>>

T_EditErr(h) ==
    /\ pc[h] = "t_edit_err"
    /\ AwaitReturns(h, [E("edit_text", "TranslateFailed") EXCEPT !.text = loc[h].translated_text],
                 "done", "t_reply_generic")

T_EditTranslation(h) ==
    /\ pc[h] = "t_edit_translation"
    /\ AwaitReturns(h, [E("edit_text", "Translation") EXCEPT
                    !.text = loc[h].translated_text, !.lang = loc[h].target_lang,
                    !.shown = LanguagesGet(loc[h].target_lang)],
                 "text_to_speech", "t_reply_generic")

\* handle_text reporting missing audio by editing the progress message
AfterTtsPc_Mut(audio) == IF audio = "bytes" THEN "t_reply_voice" ELSE "t_edit_err"

\* what follows text_to_speech: the voice reply, or the notice
AfterTtsPc(audio) == IF audio = "bytes" THEN "t_reply_voice" ELSE "t_reply_notice"

T_AfterTts(h) ==
    /\ pc[h] = "t_after_tts"
    /\ loop = h
    /\ Goto(h, AfterTtsPc(loc[h].audio_data))
    /\ UNCHANGED <<msg, loc, log>>

T_ReplyVoice(h) ==
    /\ pc[h] = "t_reply_voice"
    /\ AwaitReturns(h, [E("reply_voice", "") EXCEPT !.lang = loc[h].target_lang],
                 "done", "t_reply_generic")

T_ReplyNotice(h) ==
    /\ pc[h] = "t_reply_notice"
    /\ AwaitReturns(h, E("reply", "AudioFailed"), "done", "t_reply_generic")

\* the except clause: the reply is awaited outside any try
T_ReplyGeneric(h) ==
    /\ pc[h] = "t_reply_generic"
    /\ AwaitReturns(h, E("reply", "GenericError"), "done", "raised")

\* -------------------------------------------------------- handle_document
\* handle_document with the size test off by one
FileTooBig_Mut(size) == size > MAX_FILE_SIZE + 1

\* the size test of handle_document
FileTooBig(size) == size > MAX_FILE_SIZE

\* file_ext of handle_document, ext of create_translated_file
FileExt(name) == Lower(LastDotPart(name))

\* handle_document taking any caption as the target language
DocTargetLang_Mut(caption) == IF caption # <<>> THEN caption ELSE <<"ru">>

\* the target language of a document: the caption when it is a recognized
\* code, else 'ru'
DocTargetLang(caption) ==
    IF caption # <<>> /\ InLanguages(caption) THEN caption ELSE <<"ru">>

\* from the entry to the first await
D_Validate(h) ==
    /\ pc[h] = "d_validate"
    /\ loop = h
    /\ IF FileTooBig(msg[h].file_size)
       THEN /\ Goto(h, "d_reply_oversize")
            /\ UNCHANGED loc
       ELSE IF FileExt(msg[h].file_name) \notin SUPPORTED
       THEN /\ Goto(h, "d_reply_unsupported")
            /\ UNCHANGED loc
       ELSE /\ loc' = [loc EXCEPT ![h].target_lang = DocTargetLang(msg[h].caption)]
            /\ Goto(h, "d_chat_action")
    /\ UNCHANGED <<msg, log>>

D_ReplyOversize(h) ==
    /\ pc[h] = "d_reply_oversize"
    /\ AwaitReturns(h, E("reply", "Oversized"), "done", "d_reply_generic")

D_ReplyUnsupported(h) ==
    /\ pc[h] = "d_reply_unsupported"
    /\ AwaitReturns(h, E("reply", "Unsupported"), "done",
                 "d_reply_generic")

D_ChatAction(h) ==
    /\ pc[h] = "d_chat_action"
    /\ AwaitReturns(h, E("send_chat_action", ""), "d_reply_progress",
                 "d_reply_generic")

D_ReplyProgress(h) ==
    /\ pc[h] = "d_reply_progress"
    /\ AwaitReturns(h, E("reply", "Processing"), "d_get_file",
                 "d_reply_generic")

D_GetFile(h) ==
    /\ pc[h] = "d_get_file"
    /\ AwaitReturns(h, E("get_file", ""), "d_download", "d_reply_generic")

\* process_document: the download returns and the content is parsed.  A
\* failed download and a failed parse are caught inside and give None.
D_Download(h) ==
    /\ pc[h] = "d_download"
    /\ loop = Free
    /\ \E ok \in BOOLEAN, t \in Extractions \cup {None} :
         /\ ~ok => t = None
         /\ Emit(h, [E("download_file", "") EXCEPT !.ok = ok])
         /\ loc' = [loc EXCEPT ![h].text = t]
    /\ Goto(h, "d_after_extract")
    /\ UNCHANGED msg

\* the test of the extracted text
D_AfterExtract(h) ==
    /\ pc[h] = "d_after_extract"
    /\ loop = h
    /\ Goto(h, IF ~Truthy(loc[h].text) THEN "d_edit_extract_err" ELSE "translate_text")
    /\ UNCHANGED <<msg, loc, log>>

D_EditExtractErr(h) ==
    /\ pc[h] = "d_edit_extract_err"
    /\ AwaitReturns(h, E("edit_text", "ExtractFailed"), "done",
                 "d_reply_generic")

\* the test for the warning sign
D_AfterTranslate(h) ==
    /\ pc[h] = "d_after_translate"
    /\ loop = h
    /\ Goto(h, IF StartsWithWarning(loc[h].translated_text) THEN "d_edit_err" ELSE "d_build")
    /\ UNCHANGED <<msg, loc, log>>

D_EditErr(h) ==
    /\ pc[h] = "d_edit_err"
    /\ AwaitReturns(h, [E("edit_text", "TranslateFailed") EXCEPT !.text = loc[h].translated_text],
                 "done", "d_reply_generic")

\* the file create_translated_file returns when nothing raises
CreateTranslatedFile(original_filename) ==
    LET filename == <<"translated_">> \o original_filename
    IN  IF FileExt(original_filename) = <<"docx">>
        THEN [name |-> filename, fmt |-> "docx"]
        ELSE [name |-> ReplacePdf(filename), fmt |-> "text"]

\* create_translated_file and the test of its result: a file, or None when
\* building it raised
D_Build(h) ==
    /\ pc[h] = "d_build"
    /\ loop = h
    /\ \E built \in BOOLEAN :
         /\ loc' = [loc EXCEPT ![h].translated_file =
                       IF built THEN CreateTranslatedFile(msg[h].file_name) ELSE NoFile]
         /\ Emit(h, [E("create_translated_file", "") EXCEPT
                       !.ok = built, !.text = loc[h].translated_text])
         /\ Goto(h, IF built THEN "d_reply_document" ELSE "d_edit_build_err")
    /\ UNCHANGED msg

D_EditBuildErr(h) ==
    /\ pc[h] = "d_edit_build_err"
    /\ AwaitReturns(h, E("edit_text", "BuildFailed"), "done",
                 "d_reply_generic")

\* handle_document returning after the document without removing the placeholder
D_ReplyDocument_Mut(h) ==
    /\ pc[h] = "d_reply_document"
    /\ AwaitReturns(h,
                    [E("reply_document", "") EXCEPT
                       !.name = loc[h].translated_file.name,
                       !.fmt = loc[h].translated_file.fmt,
                       !.lang = loc[h].target_lang,
                       !.shown = LanguagesGet(loc[h].target_lang)],
                    "done", "d_reply_generic")

D_ReplyDocument(h) ==
    /\ pc[h] = "d_reply_document"
    /\ AwaitReturns(h, [E("reply_document", "") EXCEPT
                    !.name = loc[h].translated_file.name,
                    !.fmt = loc[h].translated_file.fmt,
                    !.lang = loc[h].target_lang,
                    !.shown = LanguagesGet(loc[h].target_lang)],
                 "d_delete", "d_reply_generic")

D_Delete(h) ==
    /\ pc[h] = "d_delete"
    /\ AwaitReturns(h, E("delete", ""), "done", "d_reply_generic")

\* the except clause: the reply is awaited outside any try
D_ReplyGeneric(h) ==
    /\ pc[h] = "d_reply_generic"
    /\ AwaitReturns(h, E("reply", "GenericError"), "done", "raised")

\* ----------------------------------------------------------- specification
Next ==
    \E h \in Handlers :
        \/ Dispatch(h)
        \/ Translate_Enter(h)
        \/ Translate_Post(h)
        \/ Tts_Enter(h)
        \/ Tts_Post(h)
        \/ T_Parse(h)
        \/ T_ReplyTooLong(h)
        \/ T_ChatAction(h)
        \/ T_ReplyProgress(h)
        \/ T_AfterTranslate(h)
        \/ T_EditErr(h)
        \/ T_EditTranslation(h)
        \/ T_AfterTts(h)
        \/ T_ReplyVoice(h)
        \/ T_ReplyNotice(h)
        \/ T_ReplyGeneric(h)
        \/ D_Validate(h)
        \/ D_ReplyOversize(h)
        \/ D_ReplyUnsupported(h)
        \/ D_ChatAction(h)
        \/ D_ReplyProgress(h)
        \/ D_GetFile(h)
        \/ D_Download(h)
        \/ D_AfterExtract(h)
        \/ D_EditExtractErr(h)
        \/ D_AfterTranslate(h)
        \/ D_EditErr(h)
        \/ D_Build(h)
        \/ D_EditBuildErr(h)
        \/ D_ReplyDocument(h)
        \/ D_Delete(h)
        \/ D_ReplyGeneric(h)

Spec == Init /\ [][Next]_vars

SpecConc == InitConc /\ [][Next]_vars

\* ------------------------------------------------ reading a handler's log
\* the positions of the calls (op, what) in the log of h
Evs(h, op, what) ==
    {i \in 1..Len(log[h]) : log[h][i].op = op /\ log[h][i].what = what}

\* those that succeeded: what the user received
Delivered(h, op, what) == {i \in Evs(h, op, what) : log[h][i].ok}

\* the calls with the given op
OpEvs(h, op) == {i \in 1..Len(log[h]) : log[h][i].op = op}

\* the chat-transport calls that raised into the handler's try block
TransportOps == {"reply", "edit_text", "reply_voice", "reply_document", "delete",
                 "send_chat_action", "get_file"}

RaisedCalls(h) ==
    {i \in 1..Len(log[h]) : log[h][i].op \in TransportOps /\ ~log[h][i].ok}

\* what the progress message shows: "none" before it is sent, "Processing",
\* the kind of its last edit, or "deleted"
Placeholder(h) ==
    LET touched == {i \in 1..Len(log[h]) :
                      /\ log[h][i].ok
                      /\ \/ log[h][i].op = "reply" /\ log[h][i].what = "Processing"
                         \/ log[h][i].op \in {"edit_text", "delete"}}
    IN  IF touched = {} THEN "none"
        ELSE LET last == CHOOSE i \in touched : \A j \in touched : j <= i
             IN  IF log[h][last].op = "delete" THEN "deleted" ELSE log[h][last].what

ErrorReplies == {"TooLong", "Oversized", "Unsupported", "GenericError"}

\* the error replies the user received
ErrorsReceived(h) ==
    {i \in 1..Len(log[h]) :
       log[h][i].op = "reply" /\ log[h][i].what \in ErrorReplies /\ log[h][i].ok}

\* ------------------------------------------------------------------ C1
\* an exception was raised inside the try block of the handler of h
ExceptionRaised(h) ==
    \/ RaisedCalls(h) # {}
    \/ OpEvs(h, "download_file") # {} /\ \E i \in OpEvs(h, "download_file") : ~log[h][i].ok
    \/ msg[h].kind = "plain" /\ msg[h].text = None /\ pc[h] \notin {"start", "t_parse"}

\* C1: whenever a step of a flow raises (a failing send, edit, delete or
\* download included), the handler catches it, the user receives exactly one
\* generic error reply, and no exception leaves the handler.
C1_CaughtAndReported ==
    \A h \in Handlers :
        /\ pc[h] # "raised"
        /\ pc[h] = "done" /\ ExceptionRaised(h) =>
              Cardinality(Delivered(h, "reply", "GenericError")) = 1

\* ------------------------------------------------------------------ C2
\* a document over 5 MB, or whose extension is not txt, docx or pdf
Rejected(m) ==
    /\ m.kind = "document"
    /\ \/ m.file_size > 5 * 1024 * 1024
       \/ Lower(LastDotPart(m.file_name)) \notin {<<"txt">>, <<"docx">>, <<"pdf">>}

\* C2: a rejected document fails at once.  Nothing but error replies is ever
\* sent for it: no chat action, no 'processing' placeholder, no get_file,
\* download, translation request or file build.  The first reply is the
\* validation error (size before extension); the user never receives more
\* than one error reply and has received exactly one when the handler returns.
C2_FailFast ==
    \A h \in Handlers : Rejected(msg[h]) =>
        /\ pc[h] \in {"start", "d_validate", "d_reply_oversize", "d_reply_unsupported",
                      "d_reply_generic", "done", "raised"}
        /\ \A i \in 1..Len(log[h]) :
              log[h][i].op = "reply" /\ log[h][i].what \in ErrorReplies
        /\ Len(log[h]) > 0 =>
              log[h][1].what = IF msg[h].file_size > 5 * 1024 * 1024
                               THEN "Oversized" ELSE "Unsupported"
        /\ loc[h].translated_text = None /\ loc[h].translated_file = NoFile
        /\ Cardinality(ErrorsReceived(h)) <= 1
        /\ pc[h] = "done" => Cardinality(ErrorsReceived(h)) = 1

\* "report.pdf" of more than 5 MB was answered with the size error alone
C2_Witness ==
    \E h \in Handlers :
        /\ msg[h].file_name = <<"a", ".", "pdf">>
        /\ msg[h].file_size > MAX_FILE_SIZE
        /\ pc[h] = "done"
        /\ Len(log[h]) = 1 /\ Delivered(h, "reply", "Oversized") = {1}

\* ------------------------------------------------------------------ C3
\* the translation succeeded, was shown, and text_to_speech returned no audio
NoAudio(h) ==
    /\ msg[h].kind = "plain"
    /\ Delivered(h, "edit_text", "Translation") # {}
    /\ pc[h] \notin {"text_to_speech", "post_tts"}
    /\ loc[h].audio_data # "bytes"

\* C3: once synthesis has returned no audio, the progress message keeps
\* showing the translated text to the end, no voice is sent, and the 'audio
\* failed' notice goes out as a reply of its own, once; the generic error
\* reply appears only when the send of the notice itself raised, and by the
\* time the handler returns the user holds the translation plus the notice
\* (or, the notice's send having raised, the generic error reply).
C3_TextAndNotice ==
    \A h \in Handlers : NoAudio(h) =>
        /\ Placeholder(h) = "Translation"
        /\ \E i \in Delivered(h, "edit_text", "Translation") :
              log[h][i].text = loc[h].translated_text
        /\ OpEvs(h, "reply_voice") = {}
        /\ Evs(h, "edit_text", "TranslateFailed") = {}
        /\ pc[h] \in {"t_after_tts", "t_reply_notice"} \/ Evs(h, "reply", "AudioFailed") # {}
        /\ Cardinality(Evs(h, "reply", "AudioFailed")) <= 1
        /\ Evs(h, "reply", "GenericError") # {} =>
              \E i \in Evs(h, "reply", "AudioFailed") : ~log[h][i].ok
        /\ pc[h] = "done" =>
              \/ Delivered(h, "reply", "AudioFailed") # {}
              \/ Delivered(h, "reply", "GenericError") # {}

\* the speech endpoint failed and the user holds translation and notice
C3_Witness ==
    \E h \in Handlers :
        /\ NoAudio(h)
        /\ pc[h] = "done"
        /\ \E i \in OpEvs(h, "post_tts") : ~log[h][i].ok
        /\ Placeholder(h) = "Translation"
        /\ Delivered(h, "reply", "AudioFailed") # {}

\* ------------------------------------------------------------------ C4
\* C4: no request to the translation endpoint carries a text of more than
\* 10,000 characters, and translate_text, given such a text, returns the
\* TooLong string without a request.
C4_NoLongRequest ==
    \A h \in Handlers :
        /\ pc[h] = "post_translate" => StrLen(loc[h].text) <= 10000
        /\ \A i \in OpEvs(h, "post_translate") : StrLen(log[h][i].text) <= 10000
        /\ pc[h] \in {"t_after_translate", "d_after_translate"}
              /\ StrLen(loc[h].text) > 10000 =>
              loc[h].translated_text = TooLongMsg /\ OpEvs(h, "post_translate") = {}

\* a document whose text has 10,001 characters ended with the TooLong message
C4_Witness ==
    \E h \in Handlers :
        /\ msg[h].kind = "document"
        /\ StrLen(loc[h].text) = 10001
        /\ loc[h].translated_text = TooLongMsg
        /\ OpEvs(h, "post_translate") = {}
        /\ pc[h] = "done"
        /\ Placeholder(h) = "TranslateFailed"

\* ------------------------------------------------------------------ C5
\* the translation client has been called for the text message of h
TextTranslateCalled(h) ==
    /\ msg[h].kind = "plain"
    /\ pc[h] \in {"translate_text", "post_translate"} \/ OpEvs(h, "post_translate") # {}

WhitespaceTokens == {" ", "NL"}

\* the index of the last whitespace token of b, 0 when there is none
LastWhitespace(b) ==
    IF \E i \in 1..Len(b) : b[i] \in WhitespaceTokens
    THEN CHOOSE i \in 1..Len(b) :
            b[i] \in WhitespaceTokens /\ \A j \in (i+1)..Len(b) : b[j] \notin WhitespaceTokens
    ELSE 0

\* C5 as stated: the message is split at its trailing whitespace-delimited
\* token; the client is called with (remainder, token) when the token is a
\* recognized code, and with (whole message, 'ru') otherwise.
C5_WhitespaceSplit ==
    \A h \in Handlers : TextTranslateCalled(h) =>
        LET b == msg[h].text.body
            k == LastWhitespace(b)
        IN  IF k > 0 /\ Len(b) = k + 1 /\ b[Len(b)] \in LANGUAGES
            THEN /\ loc[h].target_lang = <<b[Len(b)]>>
                 /\ loc[h].text = Str(msg[h].text.pad, SubSeq(b, 1, k - 1))
            ELSE /\ loc[h].target_lang = <<"ru">>
                 /\ loc[h].text = msg[h].text

\* C5 amended: the message is split at its last space character.  When it
\* ends with a space followed by a recognized code, the client is called
\* with (what precedes that space, the code); in every other case (no
\* space, a trailing space, a code set off by a newline) it is called with
\* (the whole message, 'ru').  Every request that reaches the endpoint
\* carries exactly that text and that language.
C5_SpaceSplit ==
    \A h \in Handlers : TextTranslateCalled(h) =>
        LET b == msg[h].text.body
            n == Len(b)
            coded == n >= 2 /\ b[n - 1] = " " /\ b[n] \in LANGUAGES
            text == IF coded THEN Str(msg[h].text.pad, SubSeq(b, 1, n - 2)) ELSE msg[h].text
            lang == IF coded THEN <<b[n]>> ELSE <<"ru">>
        IN  /\ loc[h].text = text
            /\ loc[h].target_lang = lang
            /\ \A i \in OpEvs(h, "post_translate") :
                  log[h][i].text = text /\ log[h][i].lang = lang

\* "h es" was sent to the endpoint as ("h", "es"), and a message without a
\* code would be sent whole with 'ru'
C5_Witness ==
    \E h \in Handlers :
        /\ msg[h].text = Str(0, <<"h", " ", "es">>)
        /\ \E i \in OpEvs(h, "post_translate") :
              log[h][i].text = Str(0, <<"h">>) /\ log[h][i].lang = <<"es">>

\* ------------------------------------------------------------------ C6
\* translate_text has returned for h
TranslateReturned(h) == loc[h].translated_text # None

\* the translation client failed: TooLong, or the request raised
ClientFailed(h) ==
    \/ StrLen(loc[h].text) > 10000
    \/ \E i \in OpEvs(h, "post_translate") : ~log[h][i].ok

\* the router took the failure branch: it edits the placeholder to the message
FailureBranch(h) ==
    pc[h] \in {"t_edit_err", "d_edit_err"} \/ Evs(h, "edit_text", "TranslateFailed") # {}

\* the router went on with the translated text
SuccessBranch(h) ==
    \/ pc[h] \in {"t_edit_translation", "d_build"}
    \/ Evs(h, "edit_text", "Translation") # {}
    \/ OpEvs(h, "create_translated_file") # {}

\* C6: the router takes the failure branch exactly when the translation
\* client failed, and the success branch for every text the endpoint
\* returned, whatever its first character.
C6_TaggedResult ==
    \A h \in Handlers :
        /\ FailureBranch(h) => ClientFailed(h)
        /\ SuccessBranch(h) => ~ClientFailed(h)
        /\ TranslateReturned(h) /\ pc[h] \in EndPcs => FailureBranch(h) \/ SuccessBranch(h)

\* ------------------------------------------------------------------ C7
\* the position of a call in the order of the document flow
Rank(e) ==
    IF e.op = "send_chat_action" THEN 0
    ELSE IF e.op = "reply" /\ e.what = "Processing" THEN 1
    ELSE IF e.op = "get_file" THEN 2
    ELSE IF e.op = "download_file" THEN 3
    ELSE IF e.op = "post_translate" THEN 4
    ELSE IF e.op = "create_translated_file" THEN 5
    ELSE IF e.op = "reply_document" THEN 6
    ELSE IF e.op = "delete" THEN 7
    ELSE IF e.op = "edit_text" THEN 8
    ELSE 9

\* every call is made at most once, in the order extraction, translation,
\* build, document, removal; an edit of the placeholder ends the steps
InOrder(h) ==
    \A i, j \in 1..Len(log[h]) : i < j => Rank(log[h][i]) < Rank(log[h][j])

PlaceholderSent(h) == msg[h].kind = "document" /\ Delivered(h, "reply", "Processing") # {}

\* Failed: the placeholder shows an error and no document was sent
Failed(h) ==
    /\ Placeholder(h) \in {"ExtractFailed", "TranslateFailed", "BuildFailed"}
    /\ OpEvs(h, "reply_document") = {}

\* Responded: the document was sent, and after it the placeholder was removed
Responded(h) ==
    /\ Placeholder(h) = "deleted"
    /\ \E i \in OpEvs(h, "reply_document"), j \in OpEvs(h, "delete") :
          log[h][i].ok /\ log[h][j].ok /\ i < j

\* a transport call made after the placeholder raised, and the except
\* clause tried the generic error reply
Unexpected(h) ==
    /\ \E i \in RaisedCalls(h) :
          log[h][i].op \in {"get_file", "edit_text", "reply_document", "delete"}
    /\ Evs(h, "reply", "GenericError") # {}

\* C7 as stated: after the placeholder the steps run in order and the flow
\* ends Failed or Responded; no ended flow leaves 'processing' showing.
C7_TwoEndings ==
    \A h \in Handlers : PlaceholderSent(h) =>
        /\ InOrder(h)
        /\ pc[h] \in EndPcs =>
              /\ Failed(h) \/ Responded(h)
              /\ ~(Failed(h) /\ Responded(h))
              /\ Placeholder(h) # "Processing"

\* C7 amended: after the placeholder the steps run in order, each at most
\* once, and the flow ends in exactly one of three ways: Failed, Responded,
\* or Unexpected, when get_file, an edit of the placeholder, reply_document
\* or delete raised and the generic error reply was tried.  Only an
\* Unexpected ending leaves the placeholder showing 'processing'.
C7_ThreeEndings ==
    \A h \in Handlers : PlaceholderSent(h) =>
        /\ InOrder(h)
        /\ pc[h] \in EndPcs =>
              /\ Failed(h) \/ Responded(h) \/ Unexpected(h)
              /\ ~(Failed(h) /\ Responded(h))
              /\ ~(Failed(h) /\ Unexpected(h))
              /\ ~(Responded(h) /\ Unexpected(h))
              /\ Placeholder(h) = "Processing" => Unexpected(h)
        /\ Placeholder(h) = "ExtractFailed" =>
              OpEvs(h, "post_translate") = {} /\ OpEvs(h, "create_translated_file") = {}
        /\ Placeholder(h) = "TranslateFailed" => OpEvs(h, "create_translated_file") = {}

\* a flow ended Responded after all three steps
C7_Witness ==
    \E h \in Handlers :
        /\ PlaceholderSent(h)
        /\ pc[h] = "done"
        /\ Responded(h)
        /\ OpEvs(h, "download_file") # {}
        /\ OpEvs(h, "post_translate") # {}
        /\ OpEvs(h, "create_translated_file") # {}

\* ------------------------------------------------------------------ C8
\* C8: the built file is named 'translated_' plus the original name; when
\* the original extension, lower-cased, is pdf, that extension alone becomes
\* txt.  A docx original gives a document container, any other a text file.
\* (Stated for the names that have a dot.)
C8_OutputName ==
    \A h \in Handlers :
        LET n == msg[h].file_name
            ext == Lower(LastDotPart(n))
            renamed == IF ext = <<"pdf">> THEN SubSeq(n, 1, Len(n) - 1) \o <<"txt">> ELSE n
        IN  loc[h].translated_file # NoFile /\ (\E i \in 1..Len(n) : n[i] = ".") =>
               /\ loc[h].translated_file.name = <<"translated_">> \o renamed
               /\ loc[h].translated_file.fmt = IF ext = <<"docx">> THEN "docx" ELSE "text"

\* ------------------------------------------------------------------ C9
\* h waits for the answer of an external call
InExternalCall(h) == pc[h] \in AwaitPcs \cup PostPcs

\* C9: a handler waiting on an external call is suspended: it does not hold
\* the event loop, and the handler of another waiting message can be started.
C9_Suspended ==
    \A h \in Handlers : InExternalCall(h) =>
        /\ loop # h
        /\ \A g \in Handlers \ {h} : pc[g] = "start" => ENABLED Dispatch(g)

\* ------------------------------------------------------------------ C10
\* the target language the message of h asks for: the caption, or the part
\* after the last space, when that is exactly a code of the table; else 'ru'
AskedLang(m) ==
    IF m.kind = "document"
    THEN IF Len(m.caption) = 1 /\ m.caption[1] \in LANGUAGES THEN m.caption ELSE <<"ru">>
    ELSE LET b == m.text.body
         IN  IF Len(b) >= 2 /\ b[Len(b) - 1] = " " /\ b[Len(b)] \in LANGUAGES
             THEN <<b[Len(b)]>> ELSE <<"ru">>

\* the calls that carry the target language
LangCalls(h) ==
    {i \in 1..Len(log[h]) :
       \/ log[h][i].op \in {"post_translate", "post_tts", "reply_voice", "reply_document"}
       \/ log[h][i].op = "edit_text" /\ log[h][i].what = "Translation"}

\* C10: the language given to the translation client, the speech client
\* and the display-name lookup is a code of the 8-entry table: the code the
\* message asks for, or 'ru'.  The lookup never falls back to the raw code.
C10_TargetInTable ==
    /\ Cardinality(LANGUAGES) = 8
    /\ \A h \in Handlers :
          /\ pc[h] \in PostPcs =>
                loc[h].target_lang = AskedLang(msg[h]) /\ loc[h].target_lang[1] \in LANGUAGES
          /\ \A i \in LangCalls(h) :
                /\ Len(log[h][i].lang) = 1 /\ log[h][i].lang[1] \in LANGUAGES
                /\ log[h][i].lang = AskedLang(msg[h])
                /\ log[h][i].op \in {"edit_text", "reply_document"} =>
                      log[h][i].shown = <<"NameOf", log[h][i].lang[1]>>

\* a document captioned "xx" was translated to 'ru' and sent back
C10_Witness ==
    \E h \in Handlers :
        /\ msg[h].caption = <<"xx">>
        /\ \E i \in OpEvs(h, "post_translate") : log[h][i].lang = <<"ru">>
        /\ \E i \in OpEvs(h, "reply_document") :
              log[h][i].ok /\ log[h][i].shown = <<"NameOf", "ru">>

====
